---- MODULE Spec2Model ----
(***************************************************************************)
(* jeepney-objects: the path tree (dbus_node.py), the interface and        *)
(* property tables (dbus_interface.py, dbus_property.py) and the message   *)
(* dispatcher (dbus_object.py).                                            *)
(*                                                                         *)
(* A path is a Python string, modelled as a sequence of one-character      *)
(* strings, so that strip, lstrip, partition and split are computed the    *)
(* way the code computes them.  A node name is such a sequence too.        *)
(* Nodes live in an arena: a node's identity is its index, the root is 1.  *)
(***************************************************************************)
EXTENDS Integers, Sequences, FiniteSets, TLC

VARIABLES
    nodes,   \* dbus_node.py: the arena of DBusNode records reached from the root
    ret,     \* dbus_node.py: the last get_path call and what it returned or raised
    bus_name, \* DBusObject.name
    paths,   \* DBusObject.paths.root_node: the arena of Node records
    sent,    \* the messages handed to conn.send_message, in order
    call,    \* the last call of the registration API and its outcome
    worker,  \* the process started by listen(): its place in _listen and its copy of the object
    received, \* the messages conn.receive() has returned to the worker, in order
    log      \* the exceptions _listen has caught and logged, in order

vars == <<nodes, ret, bus_name, paths, sent, call, worker, received, log>>
nodeVars == <<nodes, ret>>
objectVars == <<bus_name, paths, sent, call>>
workerVars == <<worker, received, log>>

\* ---------------------------------------------------------------- bounds
MaxNodes == 4
MaxSent == 1
MaxReceived == 2
MaxLog == 1

Sep == "/"

\* The paths the operations are called with: the empty path, the root, paths
\* with doubled, leading and trailing separators, nested paths, siblings, and
\* a name ("ab") that has another name ("a") as a prefix.
Paths ==
    { <<>>,                                   \* ""
      <<"/">>,                                \* "/"
      <<"/", "/">>,                           \* "//"
      <<"a">>,                                \* "a"
      <<"/", "a">>,                           \* "/a"
      <<"/", "a", "/">>,                      \* "/a/"
      <<"/", "/", "a">>,                      \* "//a"
      <<"/", "b">>,                           \* "/b"
      <<"/", "a", "/", "b">>,                 \* "/a/b"
      <<"/", "a", "/", "b", "/">>,            \* "/a/b/"
      <<"/", "a", "/", "/", "b">>,            \* "/a//b"
      <<"/", "b", "/", "a">>,                 \* "/b/a"
      <<"/", "a", "b">>,                      \* "/ab"
      <<"/", "a", "/", "a">> }                \* "/a/a"

None == "None"

\* ------------------------------------------------------- Python str helpers
RECURSIVE lstrip(_)
lstrip(s) == IF s # <<>> /\ Head(s) = Sep THEN lstrip(Tail(s)) ELSE s

RECURSIVE rstrip(_)
rstrip(s) ==
    IF s # <<>> /\ s[Len(s)] = Sep THEN rstrip(SubSeq(s, 1, Len(s) - 1)) ELSE s

strip(s) == rstrip(lstrip(s))

\* s.partition('/'): the text before the first separator and the text after it
partition(s) ==
    LET idx == {i \in 1..Len(s) : s[i] = Sep}
    IN IF idx = {} THEN [root |-> s, rest |-> <<>>]
       ELSE LET i == CHOOSE k \in idx : \A j \in idx : k <= j
            IN [root |-> SubSeq(s, 1, i - 1), rest |-> SubSeq(s, i + 1, Len(s))]

\* s.split('/'): every piece between separators, the empty pieces included
RECURSIVE split(_)
split(s) ==
    LET p == partition(s)
    IN IF \A i \in 1..Len(s) : s[i] # Sep THEN <<s>>
       ELSE <<p.root>> \o split(p.rest)

\* ------------------------------------------------------------ dbus_node.py
IntrospectableName == "org.freedesktop.DBus.Introspectable"
PropertiesName == "org.freedesktop.DBus.Properties"

introspectable_interface ==
    [name |-> IntrospectableName,
     methods |-> <<[name |-> "Introspect", handler |-> "introspect"]>>,
     properties |-> <<>>]

properties_interface ==
    [name |-> PropertiesName,
     methods |-> <<[name |-> "Get", handler |-> "get_property"],
                   [name |-> "GetAll", handler |-> "get_all_properties"],
                   [name |-> "Set", handler |-> "set_property"]>>,
     properties |-> <<>>]

default_interfaces == <<introspectable_interface, properties_interface>>

\* a node whose interfaces are left as the dataclass default, the empty dict
DBusNode_bare(name) ==
    [name |-> name, interfaces |-> <<>>, children |-> <<>>]

DBusNode(name) ==
    [name |-> name, interfaces |-> default_interfaces, children |-> <<>>]

\* the first child of node self whose name is root, 0 when there is none
FirstChildNamed(ns, self, root) ==
    LET ch == ns[self].children
        hit == {i \in 1..Len(ch) : ns[ch[i]].name = root}
    IN IF hit = {} THEN 0
       ELSE ch[CHOOSE i \in hit : \A j \in hit : i <= j]

\* get_path with the search of the existing children skipped when ensure is
\* set: a node is created for every segment, present or not
RECURSIVE get_path_recreate(_, _, _, _)
get_path_recreate(ns, self, path, ensure) ==
    LET p == partition(strip(path))
        child == FirstChildNamed(ns, self, p.root)
        new == Len(ns) + 1
    IN IF p.root = <<>> THEN [nodes |-> ns, kind |-> "node", node |-> self]
       ELSE IF ensure
            THEN get_path_recreate(
                     Append([ns EXCEPT ![self].children = Append(@, new)],
                            DBusNode(p.root)),
                     new, p.rest, ensure)
       ELSE IF child # 0 THEN get_path_recreate(ns, child, p.rest, ensure)
       ELSE [nodes |-> ns, kind |-> "KeyError", node |-> 0]

\* get_path with the new child inserted before its siblings instead of after
RECURSIVE get_path_prepend(_, _, _, _)
get_path_prepend(ns, self, path, ensure) ==
    LET p == partition(strip(path))
        child == FirstChildNamed(ns, self, p.root)
        new == Len(ns) + 1
    IN IF p.root = <<>> THEN [nodes |-> ns, kind |-> "node", node |-> self]
       ELSE IF child # 0 THEN get_path_prepend(ns, child, p.rest, ensure)
       ELSE IF ensure
            THEN get_path_prepend(
                     Append([ns EXCEPT ![self].children = <<new>> \o @],
                            DBusNode(p.root)),
                     new, p.rest, ensure)
            ELSE [nodes |-> ns, kind |-> "KeyError", node |-> 0]

\* DBusNode.get_path(path, ensure) on node self of arena ns: the arena after
\* the call and what the call returned or raised
RECURSIVE get_path(_, _, _, _)
get_path(ns, self, path, ensure) ==
    LET p == partition(strip(path))
        child == FirstChildNamed(ns, self, p.root)
        new == Len(ns) + 1
    IN IF p.root = <<>> THEN [nodes |-> ns, kind |-> "node", node |-> self]
       ELSE IF child # 0 THEN get_path(ns, child, p.rest, ensure)
       ELSE IF ensure
            THEN get_path(Append([ns EXCEPT ![self].children = Append(@, new)],
                                 DBusNode(p.root)),
                          new, p.rest, ensure)
            ELSE [nodes |-> ns, kind |-> "KeyError", node |-> 0]

\* the names has_custom_interfaces takes for the default ones
DefaultNames ==
    { "org.freedesktop.Application", IntrospectableName,
      "org.freedesktop.DBus.Peer", PropertiesName }

\* the keys of a node's interfaces, in insertion order
InterfaceNames(ns, self) ==
    [i \in 1..Len(ns[self].interfaces) |-> ns[self].interfaces[i].name]

\* DBusNode.has_custom_interfaces
has_custom_interfaces(ns, self) ==
    ~({InterfaceNames(ns, self)[i] : i \in 1..Len(ns[self].interfaces)} \subseteq DefaultNames)

\* the <node> element: the interface elements and the names of the child stubs
NoXml == [interfaces |-> <<>>, children |-> <<>>]

\* DBusNode.to_xml: `iface.to_xml()` is called on the first interface when the
\* interfaces are to be included, and dbus_interface.py's DBusInterface
\* defines no to_xml
to_xml(ns, self) ==
    IF /\ ns[self].children = <<>> \/ has_custom_interfaces(ns, self)
       /\ ns[self].interfaces # <<>>
    THEN [kind |-> "AttributeError", xml |-> NoXml]
    ELSE [kind |-> "xml",
          xml |-> [interfaces |-> <<>>,
                   children |-> [i \in 1..Len(ns[self].children) |->
                                    ns[ns[self].children[i]].name]]]

\* ---------------------------------------------------------- dbus_object.py
\* A Python exception: its class name and its args
NoExc == [kind |-> "none", args |-> <<>>]
Raise(kind, message) == [kind |-> kind, args |-> <<message>>]

\* str(path)
RECURSIVE PathStr(_)
PathStr(p) == IF p = <<>> THEN "" ELSE Head(p) \o PathStr(Tail(p))

\* dbus_object.py's own introspectable_interface(), with its spelling
object_introspectable_interface ==
    [name |-> "org.freedestkop.DBus.Introspectable",
     methods |-> <<[name |-> "Instrospect", handler |-> "DBusInterface.introspect"]>>,
     properties |-> <<>>]

\* dbus_object.py's Node: interfaces is a list, __post_init__ appends to it
Node(n) ==
    [name |-> n, interfaces |-> <<object_introspectable_interface>>, children |-> <<>>]

DBusProperty(n, signature, value, access) ==
    [name |-> n, signature |-> signature, value |-> value, access |-> access]

\* a set_property of the interface that does not look at the access
interface_set_property_unchecked(iface, prop_name, signature, value) ==
    LET hit == {k \in 1..Len(iface.properties) : iface.properties[k].name = prop_name}
    IN IF hit # {}
       THEN LET k == CHOOSE k \in hit : TRUE
            IN [iface |-> [iface EXCEPT !.properties[k].signature = signature,
                                        !.properties[k].value = value],
                exc |-> NoExc]
       ELSE [iface |-> [iface EXCEPT !.properties =
                           Append(@, DBusProperty(prop_name, signature, value, "readwrite"))],
             exc |-> NoExc]

\* DBusInterface.set_property(prop_name, signature, value) on interface iface,
\* whose properties dict is the sequence of its values in insertion order
interface_set_property(iface, prop_name, signature, value) ==
    LET hit == {k \in 1..Len(iface.properties) : iface.properties[k].name = prop_name}
    IN IF hit # {}
       THEN LET k == CHOOSE k \in hit : TRUE
            IN IF iface.properties[k].access = "read"
               THEN [iface |-> iface,
                     exc |-> Raise("PermissionError",
                                   prop_name \o ": Property not settable")]
               ELSE [iface |-> [iface EXCEPT !.properties[k].signature = signature,
                                             !.properties[k].value = value],
                     exc |-> NoExc]
       ELSE [iface |-> [iface EXCEPT !.properties =
                           Append(@, DBusProperty(prop_name, signature, value, "readwrite"))],
             exc |-> NoExc]

\* the for/else walk of PathAccessor.get_node over the parts of the path
RECURSIVE get_node_walk(_, _, _, _)
get_node_walk(ns, node, parts, path) ==
    IF parts = <<>> THEN [exc |-> NoExc, node |-> node]
    ELSE LET child == FirstChildNamed(ns, node, Head(parts))
         IN IF child = 0
            THEN [exc |-> Raise("KeyError", "Path " \o PathStr(path) \o " not found?"),
                  node |-> 0]
            ELSE get_node_walk(ns, child, Tail(parts), path)

\* PathAccessor.get_node(path), which is PathAccessor.__getitem__
get_node(ns, path) ==
    IF path = <<Sep>> THEN [exc |-> NoExc, node |-> 1]
    ELSE get_node_walk(ns, 1, split(lstrip(path)), path)

\* `interface not in node.interfaces`: node.interfaces is a list of DBusInterface
\* objects and interface is a str or None, which no DBusInterface equals
interface_in(interfaces, interface) == FALSE

\* `node.interfaces[interface]`, read or assigned: a list subscripted by a str
\* or by None
list_subscript(interface) ==
    Raise("TypeError",
          "list indices must be integers or slices, not "
              \o (IF interface = None THEN "NoneType" ELSE "str"))

\* DBusObject.set_handler and DBusObject.set_property up to the statement that
\* raises: the node found (0 when the lookup raised) and the exception
register(ns, path, interface) ==
    LET r == get_node(ns, path)
    IN IF r.exc # NoExc THEN [nodes |-> ns, node |-> 0, exc |-> r.exc]
       ELSE IF ~interface_in(ns[r.node].interfaces, interface)
            THEN [nodes |-> ns, node |-> r.node, exc |-> list_subscript(interface)]
            ELSE [nodes |-> ns, node |-> r.node, exc |-> list_subscript(interface)]

set_handler(ns, path, interface, method_name, method) == register(ns, path, interface)

set_property(ns, path, interface, prop_name, signature, value) ==
    register(ns, path, interface)

\* `self[path]` in the two handlers: DBusObject defines no __getitem__
DBusObject_subscript(path) ==
    [exc |-> Raise("TypeError", "'DBusObject' object is not subscriptable"), node |-> 0]

NoResponse ==
    [type |-> "none", error_name |-> "", signature |-> None, body |-> <<>>]

\* DBusObject._handle_property_msg
handle_property_msg(ns, msg) ==
    IF msg.body = <<>>
    THEN [nodes |-> ns, exc |-> Raise("IndexError", "pop from empty list"),
          response |-> NoResponse]
    ELSE LET iface_name == Head(msg.body)
             node == DBusObject_subscript(msg.path)
         IN IF node.exc # NoExc
            THEN [nodes |-> ns, exc |-> node.exc, response |-> NoResponse]
            ELSE [nodes |-> ns, exc |-> list_subscript(iface_name),
                  response |-> NoResponse]

\* a dispatch that answers a call, whatever its path and interface, from the
\* interface attached to the root node when that interface has the member
handle_method_call_at_root(ns, msg) ==
    LET ifs == ns[1].interfaces
        hit == IF Len(ifs) < 2 THEN {}
               ELSE {k \in 1..Len(ifs[2].methods) : ifs[2].methods[k].name = msg.member}
    IN IF hit # {}
       THEN [nodes |-> ns, exc |-> NoExc,
             response |-> [type |-> "method_return", error_name |-> "",
                           signature |-> "s",
                           body |-> <<ifs[2].methods[CHOOSE k \in hit : TRUE].handler>>]]
       ELSE [nodes |-> ns,
             exc |-> Raise("TypeError", "'DBusObject' object is not subscriptable"),
             response |-> NoResponse]

\* DBusObject._handle_method_call
handle_method_call(ns, msg) ==
    LET node == DBusObject_subscript(msg.path)
    IN IF node.exc # NoExc
       THEN [nodes |-> ns, exc |-> node.exc, response |-> NoResponse]
       ELSE [nodes |-> ns, exc |-> list_subscript(msg.interface),
             response |-> NoResponse]

\* a new_error that keeps its default error_name 'err' for an exception
new_error_default_name(self_name, error) ==
    IF error.args = <<>>
    THEN [exc |-> Raise("IndexError", "tuple index out of range"),
          response |-> NoResponse]
    ELSE [exc |-> NoExc,
          response |-> [type |-> "error",
                        error_name |-> self_name \o ".exceptions.err",
                        signature |-> "s",
                        body |-> <<error.args[1]>>]]

\* DBusObject.new_error(parent, body) for body an exception
new_error(self_name, error) ==
    IF error.args = <<>>
    THEN [exc |-> Raise("IndexError", "tuple index out of range"),
          response |-> NoResponse]
    ELSE [exc |-> NoExc,
          response |-> [type |-> "error",
                        error_name |-> self_name \o ".exceptions." \o error.kind,
                        signature |-> "s",
                        body |-> <<error.args[1]>>]]

\* a handle_msg that dispatches a message of any type
handle_msg_any_type(ns, self_name, msg) ==
    LET r == IF msg.interface = PropertiesName
             THEN handle_property_msg(ns, msg)
             ELSE handle_method_call(ns, msg)
    IN IF r.exc = NoExc THEN r
       ELSE LET e == new_error(self_name, r.exc)
            IN [nodes |-> r.nodes, exc |-> e.exc, response |-> e.response]

\* DBusObject.handle_msg up to the send: the response built, or the exception
\* that leaves handle_msg
handle_msg(ns, self_name, msg) ==
    IF msg.type # "method_call"
    THEN [nodes |-> ns, exc |-> NoExc, response |-> NoResponse]
    ELSE LET r == IF msg.interface = PropertiesName
                  THEN handle_property_msg(ns, msg)
                  ELSE handle_method_call(ns, msg)
         IN IF r.exc = NoExc THEN r
            ELSE LET e == new_error(self_name, r.exc)
                 IN [nodes |-> r.nodes, exc |-> e.exc, response |-> e.response]

\* a stamping that exchanges the two header fields
Stamp_exchanged(response, self_name, msg) ==
    [type |-> response.type, error_name |-> response.error_name,
     signature |-> response.signature, body |-> response.body,
     destination |-> self_name, sender |-> msg.sender, parent |-> msg]

\* the response as sent: destination and sender stamped, parent the request
Stamp(response, self_name, msg) ==
    [type |-> response.type, error_name |-> response.error_name,
     signature |-> response.signature, body |-> response.body,
     destination |-> msg.sender, sender |-> self_name, parent |-> msg]

\* DBusObject.release_name() on an object named self_name, when
\* conn.send_message returns ("sent") or raises the exception named by outcome:
\* the name afterwards and the exception raised to the caller
release_name(self_name, outcome) ==
    IF outcome \in {"sent", "OSError"}
    THEN [name |-> None, exc |-> NoExc]
    ELSE [name |-> self_name, exc |-> Raise(outcome, "send failed")]

\* a stop that lets the exception of release_name through
stop_uncaught(self_name, outcome) ==
    IF self_name # None
    THEN [name |-> release_name(self_name, outcome).name,
          exc |-> release_name(self_name, outcome).exc, attempted |-> TRUE]
    ELSE [name |-> self_name, exc |-> NoExc, attempted |-> FALSE]

\* DBusObject.stop() up to the termination of the worker: `if self.name:` and
\* the try/except around release_name
stop(self_name, outcome) ==
    IF self_name # None
    THEN [name |-> release_name(self_name, outcome).name, exc |-> NoExc,
          attempted |-> TRUE]
    ELSE [name |-> self_name, exc |-> NoExc, attempted |-> FALSE]

\* ------------------------------------------------------------------ inputs
BusName == "com.example.object"
OtherName == "com.example.other"
Iface1 == "com.example.interface1"
Caller == ":1.5"

ObjPaths == { <<>>, <<"/">>, <<"/", "a">> }
Handlers == {"hello0", "hello1"}
Values == {<<"v1">>, <<"v2">>}
PropNames == {"prop0", "prop1"}
BusNames == {BusName, OtherName}

\* what conn.send_message does with the ReleaseName message: it returns, it
\* raises OSError, or it raises another exception
SendOutcomes == {"sent", "OSError", "ValueError"}

\* the replies of the bus to RequestName: primary owner, in queue, exists,
\* already owner
Replies1to4 == {1, 2, 3, 4}

\* the exceptions new_error is called with: the docstring's, and one
\* constructed without arguments
Errors == { [kind |-> "KeyError", args |-> <<"Element not found">>],
            [kind |-> "KeyError", args |-> <<>>] }

MethodCall(path, interface, member, body) ==
    [type |-> "method_call", path |-> path, interface |-> interface,
     member |-> member, body |-> body, sender |-> Caller]

Signal ==
    [type |-> "signal", path |-> <<"/">>, interface |-> Iface1,
     member |-> "changed", body |-> <<>>, sender |-> Caller]

Messages ==
    { MethodCall(<<"/">>, None, "hello", <<>>),
      MethodCall(<<"/">>, Iface1, "hello", <<>>),
      MethodCall(<<"/", "a">>, None, "hello", <<>>),
      MethodCall(<<"/", "a">>, None, "some_method", <<>>),
      MethodCall(<<"/">>, PropertiesName, "Get", <<Iface1, "prop0">>),
      MethodCall(<<"/">>, PropertiesName, "Get", <<Iface1, "prop1">>),
      MethodCall(<<"/">>, PropertiesName, "Get", <<>>),
      MethodCall(<<"/">>, PropertiesName, "Set", <<Iface1, "prop0", <<"s", "v2">>>>),
      MethodCall(<<"/">>, PropertiesName, "GetAll", <<Iface1>>),
      Signal }

MethodReturn ==
    [type |-> "method_return", path |-> <<>>, interface |-> None,
     member |-> "", body |-> <<"hello">>, sender |-> Caller]

ErrorReply ==
    [type |-> "error", path |-> <<>>, interface |-> None,
     member |-> "", body |-> <<"failed">>, sender |-> Caller]

\* the messages the worker receives: two method-calls and one message of each
\* other kind
WorkerMessages ==
    { MethodCall(<<"/">>, Iface1, "hello", <<>>),
      MethodCall(<<"/">>, PropertiesName, "Get", <<Iface1, "prop0">>),
      MethodReturn, ErrorReply, Signal }

\* ------------------------------------------------------------------ state
NoCall == [path |-> <<>>, ensure |-> FALSE, kind |-> "none", node |-> 0, xml |-> NoXml]

NoApiCall ==
    [op |-> "none", path |-> <<>>, interface |-> None, member |-> "", method |-> "",
     signature |-> "", value |-> <<>>, settable |-> FALSE, node |-> 0, exc |-> NoExc,
     name |-> None, reply |-> 0, error |-> NoExc, response |-> NoResponse,
     outcome |-> "none", attempted |-> FALSE]

\* no message: the worker's msg before its first receive()
NoMessage ==
    [type |-> "none", path |-> <<>>, interface |-> None, member |-> "", body |-> <<>>,
     sender |-> None]

\* no worker: listen() has not been called
NoWorker ==
    [pc |-> "none", name |-> None, paths |-> <<>>, msg |-> NoMessage,
     response |-> NoResponse]

Init ==
    /\ nodes = <<DBusNode(<<>>)>>
    /\ ret = NoCall
    /\ bus_name = None
    /\ paths = <<Node(<<>>)>>
    /\ sent = <<>>
    /\ call = NoApiCall
    /\ worker = NoWorker
    /\ received = <<>>
    /\ log = <<>>

\* root.get_path(path, ensure)
GetPath(path, ensure) ==
    LET r == get_path(nodes, 1, path, ensure)
    IN /\ Len(r.nodes) <= MaxNodes
       /\ nodes' = r.nodes
       /\ ret' = [path |-> path, ensure |-> ensure, kind |-> r.kind, node |-> r.node,
                  xml |-> NoXml]
       /\ UNCHANGED <<objectVars, workerVars>>

\* node.to_xml() for a node of the tree, which node.introspect() serialises
ToXml(n) ==
    LET r == to_xml(nodes, n)
    IN /\ n \in 1..Len(nodes)
       /\ ret' = [NoCall EXCEPT !.kind = r.kind, !.node = n, !.xml = r.xml]
       /\ UNCHANGED <<nodes, objectVars, workerVars>>

Next ==
    \/ \E path \in Paths, ensure \in BOOLEAN : GetPath(path, ensure)
    \/ \E n \in 1..MaxNodes : ToXml(n)

Spec == Init /\ [][Next]_vars

\* the properties named pn of the interfaces named iface in the list of node n
PropertyAt(ns, n, iface, pn) ==
    LET ifs == ns[n].interfaces
    IN {p \in UNION {{ifs[j].properties[k] : k \in 1..Len(ifs[j].properties)} :
                         j \in {i \in 1..Len(ifs) : ifs[i].name = iface}} :
           p.name = pn}

\* a request_name that assigns the name before it looks at the reply
RequestName_assigns_first(n, reply) ==
    /\ call' = [NoApiCall EXCEPT !.op = "request_name", !.name = n, !.reply = reply,
                    !.exc = IF reply # 1
                            THEN Raise("RuntimeError", "Couldn't get requested name")
                            ELSE NoExc]
    /\ bus_name' = n
    /\ UNCHANGED <<paths, sent, nodeVars, workerVars>>

\* DBusObject.request_name(name) when the bus answers reply
RequestName(n, reply) ==
    /\ IF reply # 1
       THEN /\ call' = [NoApiCall EXCEPT !.op = "request_name", !.name = n,
                           !.reply = reply,
                           !.exc = Raise("RuntimeError", "Couldn't get requested name")]
            /\ UNCHANGED bus_name
       ELSE /\ call' = [NoApiCall EXCEPT !.op = "request_name", !.name = n,
                           !.reply = reply]
            /\ bus_name' = n
    /\ UNCHANGED <<paths, sent, nodeVars, workerVars>>

\* DBusObject.set_handler(path, interface, method_name, method)
SetHandler(path, interface, method_name, method) ==
    LET r == set_handler(paths, path, interface, method_name, method)
    IN /\ paths' = r.nodes
       /\ call' = [NoApiCall EXCEPT !.op = "set_handler", !.path = path,
                      !.interface = interface, !.member = method_name,
                      !.method = method, !.node = r.node, !.exc = r.exc]
       /\ UNCHANGED <<bus_name, sent, nodeVars, workerVars>>

\* DBusObject.set_property(path, interface, prop_name, signature, value)
SetProperty(path, interface, prop_name, signature, value) ==
    LET r == set_property(paths, path, interface, prop_name, signature, value)
        found == get_node(paths, path)
    IN /\ paths' = r.nodes
       /\ call' = [NoApiCall EXCEPT !.op = "set_property", !.path = path,
                      !.interface = interface, !.member = prop_name,
                      !.signature = signature, !.value = value,
                      !.settable = \/ found.exc # NoExc
                                   \/ \A p \in PropertyAt(paths, found.node, interface, prop_name) :
                                          p.access # "read",
                      !.node = r.node, !.exc = r.exc]
       /\ UNCHANGED <<bus_name, sent, nodeVars, workerVars>>

\* The readonly-property test's set-up: an interface holding a handler and a
\* property is put into the root node's registry directly
AttachInterface(access, value) ==
    /\ \A i \in 1..Len(paths[1].interfaces) : paths[1].interfaces[i].name # Iface1
    /\ paths' = [paths EXCEPT ![1].interfaces =
                    Append(@, [name |-> Iface1,
                               methods |-> <<[name |-> "hello", handler |-> "hello0"]>>,
                               properties |-> <<DBusProperty("prop0", "s", value, access)>>])]
    /\ UNCHANGED <<bus_name, sent, call, nodeVars, workerVars>>

\* DBusObject.handle_msg(msg) on the object itself, in one step, send included
HandleMsg(msg) ==
    LET r == handle_msg(paths, bus_name, msg)
    IN /\ Len(sent) < MaxSent
       /\ paths' = r.nodes
       /\ sent' = IF r.exc = NoExc /\ r.response.type \in {"method_return", "error"}
                  THEN Append(sent, Stamp(r.response, bus_name, msg))
                  ELSE sent
       /\ UNCHANGED <<bus_name, call, nodeVars, workerVars>>

\* set_property called on the interface object the root node holds at
\* position j of its interfaces, the interface attached by AttachInterface
InterfaceSetProperty(j, prop_name, signature, value) ==
    /\ j \in 1..Len(paths[1].interfaces)
    /\ paths[1].interfaces[j].name = Iface1
    /\ LET r == interface_set_property(paths[1].interfaces[j], prop_name, signature, value)
       IN /\ paths' = [paths EXCEPT ![1].interfaces[j] = r.iface]
          /\ call' = [NoApiCall EXCEPT !.op = "interface_set_property",
                         !.interface = Iface1, !.member = prop_name,
                         !.signature = signature, !.value = value, !.exc = r.exc]
    /\ UNCHANGED <<bus_name, sent, nodeVars, workerVars>>

\* DBusObject.release_name()
ReleaseName(outcome) ==
    LET r == release_name(bus_name, outcome)
    IN /\ bus_name' = r.name
       /\ call' = [NoApiCall EXCEPT !.op = "release_name", !.name = bus_name,
                      !.outcome = outcome, !.attempted = TRUE, !.exc = r.exc]
       /\ UNCHANGED <<paths, sent, nodeVars, workerVars>>

\* DBusObject.stop(): the name is released if there is one, and the worker
\* process, if one is alive, is terminated
Stop(outcome) ==
    LET r == stop(bus_name, outcome)
    IN /\ bus_name' = r.name
       /\ call' = [NoApiCall EXCEPT !.op = "stop", !.name = bus_name,
                      !.outcome = outcome, !.attempted = r.attempted, !.exc = r.exc]
       /\ worker' = IF worker.pc = "none" THEN worker
                    ELSE [worker EXCEPT !.pc = "terminated"]
       /\ UNCHANGED <<paths, sent, nodeVars, received, log>>

\* DBusObject.new_error(parent, body) called with an exception as the body
NewError(error) ==
    LET r == new_error(bus_name, error)
    IN /\ call' = [NoApiCall EXCEPT !.op = "new_error", !.error = error,
                      !.exc = r.exc, !.response = r.response]
       /\ UNCHANGED <<bus_name, paths, sent, nodeVars, workerVars>>

NextObject ==
    \/ \E n \in BusNames, reply \in Replies1to4 : RequestName(n, reply)
    \/ \E error \in Errors : NewError(error)
    \/ \E path \in ObjPaths, interface \in {None, Iface1}, method \in Handlers :
           SetHandler(path, interface, "hello", method)
    \/ \E path \in ObjPaths, value \in Values :
           SetProperty(path, Iface1, "prop0", "s", value)
    \/ \E access \in {"read", "readwrite"} : AttachInterface(access, <<"v1">>)
    \/ \E msg \in Messages : HandleMsg(msg)

SpecObject == Init /\ [][NextObject]_vars

\* ------------------------------------------------------------- the worker
\* DBusObject.listen(): multiprocessing.Process(target=self._listen).start();
\* the new process runs _listen on its own copy of the object
Listen ==
    /\ worker.pc = "none"
    /\ worker' = [pc |-> "receive", name |-> bus_name, paths |-> paths,
                  msg |-> NoMessage, response |-> NoResponse]
    /\ UNCHANGED <<objectVars, received, log, nodeVars>>

\* a receive that does not wait for the handling of the previous message
Receive_overlapping(msg) ==
    /\ worker.pc # "none"
    /\ Len(received) < MaxReceived
    /\ worker' = [worker EXCEPT !.pc = "handle", !.msg = msg]
    /\ received' = Append(received, msg)
    /\ UNCHANGED <<objectVars, log, nodeVars>>

\* _listen: msg = self.conn.receive()
Receive(msg) ==
    /\ worker.pc = "receive"
    /\ Len(received) < MaxReceived
    /\ worker' = [worker EXCEPT !.pc = "handle", !.msg = msg]
    /\ received' = Append(received, msg)
    /\ UNCHANGED <<objectVars, log, nodeVars>>

\* _listen: self.conn.receive() raises; the exception is caught and logged
ReceiveRaises ==
    /\ worker.pc = "receive"
    /\ Len(log) < MaxLog
    /\ log' = Append(log, [step |-> "receive", sent |-> Len(sent)])
    /\ UNCHANGED <<objectVars, worker, received, nodeVars>>

\* _listen: self.handle_msg(msg), up to the send; an exception that leaves
\* handle_msg is caught and logged by _listen
Dispatch ==
    LET r == handle_msg(worker.paths, worker.name, worker.msg)
    IN /\ worker.pc = "handle"
       /\ IF r.exc # NoExc
          THEN /\ worker' = [worker EXCEPT !.pc = "receive", !.paths = r.nodes]
               /\ log' = Append(log, [step |-> "handle", sent |-> Len(sent)])
          ELSE /\ worker' = [worker EXCEPT
                                !.pc = IF r.response.type \in {"method_return", "error"}
                                       THEN "send" ELSE "receive",
                                !.paths = r.nodes,
                                !.response = IF r.response.type \in {"method_return", "error"}
                                             THEN r.response ELSE NoResponse]
               /\ UNCHANGED log
       /\ UNCHANGED <<objectVars, received, nodeVars>>

\* handle_msg: destination and sender are set and self.conn.send_message(response)
\* returns
Send ==
    /\ worker.pc = "send"
    /\ sent' = Append(sent, Stamp(worker.response, worker.name, worker.msg))
    /\ worker' = [worker EXCEPT !.pc = "receive", !.response = NoResponse]
    /\ UNCHANGED <<bus_name, paths, call, received, log, nodeVars>>

\* a failing send that ends the loop instead of being caught inside it
SendRaises_stops ==
    /\ worker.pc = "send"
    /\ Len(log) < MaxLog
    /\ log' = Append(log, [step |-> "send", sent |-> Len(sent)])
    /\ worker' = [worker EXCEPT !.pc = "stopped", !.response = NoResponse]
    /\ UNCHANGED <<objectVars, received, nodeVars>>

\* handle_msg: self.conn.send_message(response) raises; the exception leaves
\* handle_msg and is caught and logged by _listen
SendRaises ==
    /\ worker.pc = "send"
    /\ Len(log) < MaxLog
    /\ log' = Append(log, [step |-> "send", sent |-> Len(sent)])
    /\ worker' = [worker EXCEPT !.pc = "receive", !.response = NoResponse]
    /\ UNCHANGED <<objectVars, received, nodeVars>>

NextWorker ==
    \/ \E reply \in {1, 3} : RequestName(BusName, reply)
    \/ \E access \in {"read", "readwrite"} : AttachInterface(access, <<"v1">>)
    \/ Listen
    \/ \E msg \in WorkerMessages : Receive(msg)
    \/ ReceiveRaises
    \/ Dispatch
    \/ Send
    \/ SendRaises

SpecWorker == Init /\ [][NextWorker]_vars

\* ------------------------------------------------- vocabulary of the claims
\* the non-empty segments of a path, in order
NonEmpty(parts) == SelectSeq(parts, LAMBDA x : x # <<>>)
Segments(path) == NonEmpty(split(path))

\* the path "/s1/s2/.." of a sequence of segments
RECURSIVE PathOf(_)
PathOf(segs) == IF segs = <<>> THEN <<>> ELSE <<Sep>> \o Head(segs) \o PathOf(Tail(segs))

\* the node reached from node n by following segs through first-matching
\* children, 0 when a segment has no matching child
RECURSIVE Walk(_, _, _)
Walk(ns, n, segs) ==
    IF segs = <<>> THEN n
    ELSE LET c == FirstChildNamed(ns, n, Head(segs))
         IN IF c = 0 THEN 0 ELSE Walk(ns, c, Tail(segs))

Present(ns, path) == Walk(ns, 1, Segments(path)) # 0

\* the number of leading segments of segs that are present in the tree
MatchedDepth(ns, segs) ==
    CHOOSE k \in 0..Len(segs) :
        /\ Walk(ns, 1, SubSeq(segs, 1, k)) # 0
        /\ \A j \in (k + 1)..Len(segs) : Walk(ns, 1, SubSeq(segs, 1, j)) = 0

\* ---------------------------------------------------------------- claims
\* C7: for a path P not in the tree, get_path(P, ensure=False) raises KeyError
\* and leaves the tree unchanged, and get_path(P, ensure=True) returns a node
\* named after P's last segment, at which P resolves from then on; whenever P
\* resolves to a node, get_path(P, ensure) returns that node for either value
\* of ensure and creates nothing, and P resolves to the same node after every
\* later call.
C7_ResolveAbsentThenIdentical ==
    [][\A p \in Paths, e \in BOOLEAN :
          GetPath(p, e) =>
              LET segs == Segments(p)
                  before == Walk(nodes, 1, segs)
              IN /\ (before = 0 /\ ~e) => (ret'.kind = "KeyError" /\ nodes' = nodes)
                 /\ (before = 0 /\ e) =>
                        /\ ret'.kind = "node"
                        /\ ret'.node \in 1..Len(nodes')
                        /\ nodes'[ret'.node].name = segs[Len(segs)]
                        /\ Walk(nodes', 1, segs) = ret'.node
                 /\ before # 0 =>
                        (ret'.kind = "node" /\ ret'.node = before /\ nodes' = nodes)
                 /\ \A q \in Paths :
                        Present(nodes, q) =>
                            Walk(nodes', 1, Segments(q)) = Walk(nodes, 1, Segments(q))]_vars

\* a get_path(ensure=False) of "/a/b" has returned the node named b, which an
\* earlier get_path(ensure=True) created
C7_Witness ==
    /\ ret.path = <<"/", "a", "/", "b">>
    /\ ~ret.ensure
    /\ ret.kind = "node"
    /\ ret.node # 1
    /\ nodes[ret.node].name = <<"b">>

\* C8: get_path(P, ensure=True) creates one node per missing segment of P and
\* no other node; each new node is the last child of its parent, the node of a
\* later segment being the only child of the node of the earlier one; the
\* nodes that existed keep their name, their interfaces and their children in
\* order; and resolving any prefix of P afterwards returns the node of that
\* prefix and creates nothing.
C8_CreatesExactlyMissingSegments ==
    [][\A p \in Paths :
          GetPath(p, TRUE) =>
              LET segs == Segments(p)
                  k == MatchedDepth(nodes, segs)
                  n0 == Len(nodes)
                  missing == Len(segs) - k
                  chain == [j \in 0..Len(segs) |->
                               IF j <= k THEN Walk(nodes, 1, SubSeq(segs, 1, j))
                               ELSE n0 + (j - k)]
              IN /\ Len(nodes') = n0 + missing
                 /\ \A j \in (k + 1)..Len(segs) :
                        /\ nodes'[chain[j]].name = segs[j]
                        /\ nodes'[chain[j]].interfaces = default_interfaces
                        /\ nodes'[chain[j]].children =
                               IF j < Len(segs) THEN <<chain[j + 1]>> ELSE <<>>
                 /\ \A i \in 1..n0 :
                        /\ nodes'[i].name = nodes[i].name
                        /\ nodes'[i].interfaces = nodes[i].interfaces
                        /\ nodes'[i].children =
                               IF missing > 0 /\ i = chain[k]
                               THEN Append(nodes[i].children, n0 + 1)
                               ELSE nodes[i].children
                 /\ ret'.kind = "node" /\ ret'.node = chain[Len(segs)]
                 /\ \A j \in 0..Len(segs) :
                        get_path(nodes', 1, PathOf(SubSeq(segs, 1, j)), FALSE)
                            = [nodes |-> nodes', kind |-> "node", node |-> chain[j]]]_vars

\* get_path("/b/a", ensure=True) has created b as the second child of the
\* root, after an existing child, and a as the only child of b
C8_Witness ==
    /\ ret.path = <<"/", "b", "/", "a">>
    /\ ret.ensure
    /\ Len(nodes) = 4
    /\ ret.node = 4
    /\ nodes[1].children = <<2, 3>>
    /\ nodes[3].name = <<"b">>
    /\ nodes[3].children = <<4>>
    /\ nodes[4].name = <<"a">>

\* ------------------------------------ vocabulary of the dispatcher's claims
\* what the handlers of the tests return: partial(str_response, body='HelloN')
HandlerReturn(method, body) ==
    [signature |-> "s", body |-> <<IF method = "hello0" THEN "Hello0" ELSE "Hello1">>]

\* the interfaces attached to node n that carry the key iface, in list order
InterfacesAt(ns, n, iface) ==
    SelectSeq(ns[n].interfaces, LAMBDA i : i.name = iface)

\* the handlers of member in a sequence of interfaces, in order
RECURSIVE HandlersOf(_, _)
HandlersOf(ifs, member) ==
    IF ifs = <<>> THEN <<>>
    ELSE LET ms == SelectSeq(Head(ifs).methods, LAMBDA x : x.name = member)
         IN (IF ms = <<>> THEN <<>> ELSE <<ms[1].handler>>) \o HandlersOf(Tail(ifs), member)

\* the registry's node for a path: by the path's segments, 0 when absent
NodeOf(ns, path) == Walk(ns, 1, Segments(path))

\* the step sends exactly one message, a reply to m
Replies(m) ==
    /\ Len(sent') = Len(sent) + 1
    /\ sent'[Len(sent')].parent = m
    /\ SubSeq(sent', 1, Len(sent)) = sent

Reply == sent'[Len(sent')]

IsMethodReturn(m, signature, body) ==
    /\ Replies(m)
    /\ Reply.type = "method_return"
    /\ Reply.signature = signature
    /\ Reply.body = body

IsError(m, kind, message) ==
    /\ Replies(m)
    /\ Reply.type = "error"
    /\ Reply.error_name = bus_name \o ".exceptions." \o kind
    /\ Reply.body = <<message>>

IsPlainCall(m) == m.type = "method_call" /\ m.interface # PropertiesName
IsPropertyCall(m, member, arity) ==
    /\ m.type = "method_call"
    /\ m.interface = PropertiesName
    /\ m.member = member
    /\ Len(m.body) = arity

\* ------------------------------------------------- claims of the dispatcher
\* C1: once set_handler(P, I, m, h) has been called, for any path P, a
\* method-call for (P, I, m) is answered by a method-return that carries the
\* (signature, body) returned by h, the handler most recently registered.
C1_RegisteredHandlerAnswers ==
    [][\A m \in Messages :
          (/\ call.op = "set_handler"
           /\ IsPlainCall(m)
           /\ m.path = call.path
           /\ m.interface = call.interface
           /\ m.member = call.member
           /\ HandleMsg(m))
          => LET r == HandlerReturn(call.method, m.body)
             IN IsMethodReturn(m, r.signature, r.body)]_vars

\* C2: a method-call for a member no interface of the addressed node has a
\* handler for, the node not existing included, is answered by the error
\* '<bus name>.exceptions.KeyError' with body "Unregistered method: '<member>'".
C2_UnregisteredMethodError ==
    [][\A m \in Messages :
          (/\ IsPlainCall(m)
           /\ \/ NodeOf(paths, m.path) = 0
              \/ HandlersOf(paths[NodeOf(paths, m.path)].interfaces, m.member) = <<>>
           /\ HandleMsg(m))
          => IsError(m, "KeyError", "Unregistered method: '" \o m.member \o "'")]_vars

\* C3: a Set through the Properties interface for a property whose access is
\* 'read' is answered by the error '<bus name>.exceptions.PermissionError' with
\* body '<name>: Property not settable', the registry is left as it was, and
\* a following Get of the property returns its original (signature, value).
C3_ReadOnlySetRejected ==
    [][\A m \in Messages :
          (/\ IsPropertyCall(m, "Set", 3)
           /\ NodeOf(paths, m.path) # 0
           /\ \E p \in PropertyAt(paths, NodeOf(paths, m.path), m.body[1], m.body[2]) :
                  p.access = "read"
           /\ HandleMsg(m))
          => /\ IsError(m, "PermissionError", m.body[2] \o ": Property not settable")
             /\ paths' = paths
             /\ \A p \in PropertyAt(paths, NodeOf(paths, m.path), m.body[1], m.body[2]) :
                    LET get == handle_msg(paths', bus_name',
                                          MethodCall(m.path, PropertiesName, "Get",
                                                     <<m.body[1], m.body[2]>>))
                    IN /\ get.response.type = "method_return"
                       /\ get.response.signature = p.signature
                       /\ get.response.body = p.value]_vars

\* C4: once set_property(P, I, n, s, v) has been called with the property
\* absent or present with an access other than 'read', a Get for (P, I, n)
\* through the Properties interface is answered by a method-return carrying
\* (s, v); and that set_property leaves a property n of I at P with (s, v),
\* whose access is 'readwrite' if it was created and unchanged otherwise.
C4_SetThenGet ==
    [][/\ \A m \in Messages :
             (/\ call.op = "set_property"
              /\ call.settable
              /\ IsPropertyCall(m, "Get", 2)
              /\ m.path = call.path
              /\ m.body = <<call.interface, call.member>>
              /\ HandleMsg(m))
             => IsMethodReturn(m, call.signature, call.value)
       /\ \A path \in ObjPaths, value \in Values :
             (/\ SetProperty(path, Iface1, "prop0", "s", value)
              /\ call'.settable)
             => LET old == IF NodeOf(paths, path) = 0 THEN {}
                           ELSE PropertyAt(paths, NodeOf(paths, path), Iface1, "prop0")
                IN /\ NodeOf(paths', path) # 0
                   /\ PropertyAt(paths', NodeOf(paths', path), Iface1, "prop0")
                          = {DBusProperty("prop0", "s", value, access) :
                                 access \in IF old = {} THEN {"readwrite"}
                                            ELSE {p.access : p \in old}}]_vars

\* C5: a Get through the Properties interface for a property name that is not
\* registered on the target interface, the interface or the node not existing
\* included, is answered by the error '<bus name>.exceptions.KeyError' with
\* body "Property '<name>' not registered on this interface".
C5_UnknownPropertyError ==
    [][\A m \in Messages :
          (/\ IsPropertyCall(m, "Get", 2)
           /\ \/ NodeOf(paths, m.path) = 0
              \/ PropertyAt(paths, NodeOf(paths, m.path), m.body[1], m.body[2]) = {}
           /\ HandleMsg(m))
          => IsError(m, "KeyError",
                     "Property '" \o m.body[2] \o "' not registered on this interface")]_vars

\* the (name, (signature, value)) pairs of a sequence of properties, in order
PropertyItems(props) ==
    [k \in 1..Len(props) |-> <<props[k].name, <<props[k].signature, props[k].value>>>>]

\* C6: a GetAll for an interface attached to the addressed node is answered by
\* a method-return whose body is the list of the (name, (signature, value))
\* pairs of the interface's properties, each once, in insertion order.
C6_GetAllInInsertionOrder ==
    [][\A m \in Messages :
          (/\ IsPropertyCall(m, "GetAll", 1)
           /\ NodeOf(paths, m.path) # 0
           /\ InterfacesAt(paths, NodeOf(paths, m.path), m.body[1]) # <<>>
           /\ HandleMsg(m))
          => IsMethodReturn(
                 m, "a{sv}",
                 <<PropertyItems(
                       InterfacesAt(paths, NodeOf(paths, m.path), m.body[1])[1].properties)>>)]_vars

\* C9: resolution depends only on the non-empty segments of the path: get_path
\* returns the same node for two paths with the same segments, the root for a
\* path with none, and the node the registration API looks up for a path is
\* the node of the path's segments.
C9_SegmentsAloneDecide ==
    /\ \A p, q \in Paths, e \in BOOLEAN :
           Segments(p) = Segments(q) => get_path(nodes, 1, p, e) = get_path(nodes, 1, q, e)
    /\ \A p \in Paths :
           Segments(p) = <<>> => get_path(nodes, 1, p, FALSE).node = 1
    /\ call.op \in {"set_handler", "set_property"} => call.node = NodeOf(paths, call.path)

\* the handler the claimed rule finds for a call that declares no interface:
\* the none interface first, then every interface in insertion order
FallbackHandlers(ns, n, member) ==
    HandlersOf(InterfacesAt(ns, n, None), member) \o HandlersOf(ns[n].interfaces, member)

\* C10: a method-call that declares no interface is answered from the node's
\* none interface if it has the member, otherwise from the first interface of
\* the node, in insertion order, that has it; only when none has it is the
\* answer the error "Unregistered method: '<name>'".
C10_NoInterfaceFallback ==
    [][\A m \in Messages :
          (/\ IsPlainCall(m)
           /\ m.interface = None
           /\ NodeOf(paths, m.path) # 0
           /\ HandleMsg(m))
          => LET hs == FallbackHandlers(paths, NodeOf(paths, m.path), m.member)
             IN IF hs = <<>>
                THEN IsError(m, "KeyError", "Unregistered method: '" \o m.member \o "'")
                ELSE LET r == HandlerReturn(hs[1], m.body)
                     IN IsMethodReturn(m, r.signature, r.body)]_vars

\* the exception the handler of a method-call raises, NoExc when it raises none
Failure(ns, m) ==
    (IF m.interface = PropertiesName THEN handle_property_msg(ns, m)
     ELSE handle_method_call(ns, m)).exc

C12_ErrorBodyFollowsMessage ==
    [][/\ \A m \in Messages :
             (/\ m.type = "method_call"
              /\ Failure(paths, m) # NoExc
              /\ Failure(paths, m).args # <<>>
              /\ HandleMsg(m))
             => /\ Replies(m)
                /\ Reply.type = "error"
                /\ Reply.signature = "s"
                /\ Reply.body = <<Failure(paths, m).args[1]>>
       /\ \A error \in Errors :
             NewError(error)
             => /\ call'.exc = NoExc
                /\ call'.response.type = "error"
                /\ IF error.args = <<>>
                   THEN call'.response.signature = None /\ call'.response.body = <<>>
                   ELSE /\ call'.response.signature = "s"
                        /\ call'.response.body = <<error.args[1]>>]_vars

\* C14: a Set through the Properties interface that the interface accepts (the
\* interface is attached and the property is absent or not of access 'read')
\* sends no message at all, and leaves the property with the signature and
\* the value of the Set.
C14_SuccessfulSetSendsNothing ==
    [][\A m \in Messages :
          (/\ IsPropertyCall(m, "Set", 3)
           /\ NodeOf(paths, m.path) # 0
           /\ InterfacesAt(paths, NodeOf(paths, m.path), m.body[1]) # <<>>
           /\ \A p \in PropertyAt(paths, NodeOf(paths, m.path), m.body[1], m.body[2]) :
                  p.access # "read"
           /\ HandleMsg(m))
          => /\ sent' = sent
             /\ \E p \in PropertyAt(paths', NodeOf(paths', m.path), m.body[1], m.body[2]) :
                    <<p.signature, p.value>> = m.body[3]]_vars

C15_NonMethodCallDiscarded ==
    [][/\ (worker.msg.type # "method_call" /\ Dispatch) =>
             /\ handle_msg(worker.paths, worker.name, worker.msg).response = NoResponse
             /\ worker'.pc = "receive"
             /\ worker'.response = NoResponse
             /\ worker'.paths = worker.paths
             /\ paths' = paths
             /\ sent' = sent
             /\ log' = log
       /\ \A i \in 1..Len(sent') : sent'[i].parent.type = "method_call"]_vars

\* a signal and an error have been received and handled, and nothing was
\* sent or logged
C15_Witness ==
    /\ Len(received) = 2
    /\ received[1].type = "signal"
    /\ received[2].type = "error"
    /\ worker.pc = "receive"
    /\ worker.msg = received[2]
    /\ sent = <<>>
    /\ log = <<>>

\* the strictly increasing maps from the positions of sent into those of received
OrderedInto(n, k) ==
    {f \in [1..n -> 1..k] : \A i, j \in 1..n : i < j => f[i] < f[j]}

\* C16: the worker handles one message at a time: receive() returns a new
\* message only when the handling of the previous one is over, with no
\* response left to send; the message being handled or answered is always the
\* last one received; and the replies are sent in the order in which their
\* requests were received.
C16_OneMessageAtATime ==
    [][/\ received' # received =>
             /\ worker.pc = "receive"
             /\ worker.response = NoResponse
             /\ received' = Append(received, worker'.msg)
             /\ worker'.pc = "handle"
       /\ worker'.pc \in {"handle", "send"} =>
             /\ received' # <<>>
             /\ worker'.msg = received'[Len(received')]
       /\ \E f \in OrderedInto(Len(sent'), Len(received')) :
             \A i \in 1..Len(sent') : sent'[i].parent = received'[f[i]]]_vars

\* two different method-calls have been received, the second one after the
\* first was answered, and the two replies were sent in that order
C16_Witness ==
    /\ Len(received) = 2
    /\ received[1] # received[2]
    /\ Len(sent) = 2
    /\ sent[1].parent = received[1]
    /\ sent[2].parent = received[2]
    /\ sent[1].parent # sent[2].parent

\* C17: a failure in a receive/handle cycle (receive() raising, the send
\* raising, an exception leaving handle_msg) does not stop the worker: the
\* step that logs the failure leaves the worker at receive() with its name and
\* its registry as they were and nothing pending, where a method-call it
\* receives is handled into a reply as before; and the worker, once started,
\* is never anywhere but in its loop.
C17_FailureDoesNotStopTheWorker ==
    [][/\ log' # log =>
             /\ Len(log') = Len(log) + 1
             /\ worker'.pc = "receive"
             /\ worker'.response = NoResponse
             /\ worker'.name = worker.name
             /\ worker'.paths = worker.paths
             /\ \A m \in WorkerMessages :
                    m.type = "method_call" =>
                        LET r == handle_msg(worker'.paths, worker'.name, m)
                        IN r.exc = NoExc /\ r.response.type \in {"method_return", "error"}
       /\ worker.pc # "none" => worker'.pc \in {"receive", "handle", "send"}]_vars

\* the send of the reply to a first method-call raised and was logged, and
\* the method-call received after it has been answered
C17_Witness ==
    /\ Len(log) = 1
    /\ log[1].step = "send"
    /\ Len(received) = 2
    /\ Len(sent) = log[1].sent + 1
    /\ sent[Len(sent)].parent = received[2]
    /\ sent[Len(sent)].type = "error"
    /\ worker.pc = "receive"

\* C18: the worker and the registration API operate on one and the same
\* registry: once listen() has started the worker, the registry the worker
\* dispatches on is the registry of the owning process, so that what the owner
\* registers afterwards is seen by the worker and what a dispatched Set changes
\* is what the owner reads.
C18_OneRegistryTree ==
    worker.pc # "none" => worker.paths = paths

\* ------------------------------------------------ claims of introspection
\* C19: the introspection of a node is computed from the tree as it is at the
\* call: it lists the node's interfaces exactly when the node has no children
\* or has an interface key outside the default set, and it always lists each
\* child as a stub carrying the child's name, in the order of the children.
C19_IntrospectionFollowsTheTree ==
    [][\A n \in 1..MaxNodes :
          ToXml(n) =>
              /\ ret'.kind = "xml"
              /\ ret'.xml.children =
                     [i \in 1..Len(nodes[n].children) |-> nodes[nodes[n].children[i]].name]
              /\ ret'.xml.interfaces =
                     IF nodes[n].children = <<>> \/ has_custom_interfaces(nodes, n)
                     THEN InterfaceNames(nodes, n)
                     ELSE <<>>]_vars

\* ------------------------------------------------ claims of the bus name
\* C20: request_name(name) raises RuntimeError to its caller whenever the
\* reply of the bus is not 1 (primary owner), and then leaves the object's
\* registered name as it was; when the reply is 1 it raises nothing and the
\* registered name becomes name; and the registered name becomes a name only
\* in this way.
C20_RequestNameFailsUnlessPrimaryOwner ==
    [][/\ (call'.op = "request_name" /\ call' # call) =>
             IF call'.reply = 1
             THEN call'.exc = NoExc /\ bus_name' = call'.name
             ELSE /\ call'.exc = Raise("RuntimeError", "Couldn't get requested name")
                  /\ bus_name' = bus_name
       /\ (bus_name' # bus_name /\ bus_name' \in BusNames) =>
             /\ call'.op = "request_name"
             /\ call'.reply = 1
             /\ call'.name = bus_name']_vars

\* the object owns a name, and its request for another name, answered 3
\* (exists), has raised and left the first name registered
C20_Witness ==
    /\ bus_name = BusName
    /\ call.op = "request_name"
    /\ call.name = OtherName
    /\ call.reply = 3
    /\ call.exc.kind = "RuntimeError"

\* C21: stop() attempts the release of the bus name exactly when a name is
\* registered; when the release finds the name gone (send_message raising
\* OSError), as when it succeeds, stop raises nothing and the object holds no
\* name afterwards; and stop raises nothing to its caller whatever the
\* release raised.
C21_StopToleratesReleaseFailure ==
    [][(call'.op = "stop" /\ (call' # call \/ bus_name' # bus_name)) =>
          /\ call'.exc = NoExc
          /\ call'.attempted = (bus_name # None)
          /\ call'.outcome \in {"sent", "OSError"} => bus_name' = None
          /\ bus_name' \in {bus_name, None}]_vars

\* stop() was called on an object that held a name, the release raised
\* OSError, and stop returned with no name registered
C21_Witness ==
    /\ call.op = "stop"
    /\ call.name = BusName
    /\ call.attempted
    /\ call.outcome = "OSError"
    /\ call.exc = NoExc
    /\ bus_name = None

\* ------------------------------------------------ the life of the bus name
\* request_name, release_name, listen and stop, in any order
NextLifecycle ==
    \/ \E n \in BusNames, reply \in Replies1to4 : RequestName(n, reply)
    \/ \E outcome \in SendOutcomes : ReleaseName(outcome)
    \/ Listen
    \/ \E outcome \in SendOutcomes : Stop(outcome)

SpecLifecycle == Init /\ [][NextLifecycle]_vars

\* -------------------------------------------------- the ways to a property
\* the messages of the Properties interface that name prop0
PropertyMessages ==
    { MethodCall(<<"/">>, PropertiesName, "Get", <<Iface1, "prop0">>),
      MethodCall(<<"/">>, PropertiesName, "Set", <<Iface1, "prop0", <<"s", "v2">>>>) }

\* every operation that sets a property: set_property of the registration
\* API, set_property of the attached interface, and a dispatched Set
NextProperties ==
    \/ \E access \in {"read", "readwrite"} : AttachInterface(access, <<"v1">>)
    \/ \E path \in ObjPaths, prop_name \in PropNames, value \in Values :
           SetProperty(path, Iface1, prop_name, "s", value)
    \/ \E j \in 1..2, prop_name \in PropNames, value \in Values :
           InterfaceSetProperty(j, prop_name, "s", value)
    \/ \E msg \in PropertyMessages : HandleMsg(msg)

SpecProperties == Init /\ [][NextProperties]_vars

\* ------------------------------------------------ claims of the properties
\* C22: no step, be it a dispatched Set, a set_property of the registration
\* API or a set_property of an interface, removes a property, changes the
\* access of a property, or changes the signature or the value of a property
\* whose access is 'read': such a property keeps what it was created with.
C22_ReadOnlyPropertyNeverChanges ==
    [][/\ Len(paths') >= Len(paths)
       /\ \A n \in 1..Len(paths) :
             /\ Len(paths'[n].interfaces) >= Len(paths[n].interfaces)
             /\ \A j \in 1..Len(paths[n].interfaces) :
                    LET ps == paths[n].interfaces[j].properties
                        qs == paths'[n].interfaces[j].properties
                    IN /\ Len(qs) >= Len(ps)
                       /\ \A k \in 1..Len(ps) :
                              /\ qs[k].name = ps[k].name
                              /\ qs[k].access = ps[k].access
                              /\ ps[k].access = "read" => qs[k] = ps[k]]_vars

\* set_property of the interface was called for the read-only prop0 with
\* another value and raised PermissionError, and prop0 has its first value
C22_Witness ==
    /\ call.op = "interface_set_property"
    /\ call.member = "prop0"
    /\ call.value = <<"v2">>
    /\ call.exc.kind = "PermissionError"
    /\ PropertyAt(paths, 1, Iface1, "prop0") = {DBusProperty("prop0", "s", <<"v1">>, "read")}

\* ------------------------------------------------------ claims of the tree
\* the parents of node n: the nodes that list n among their children
ParentsOf(ns, n) ==
    {q \in 1..Len(ns) : \E i \in 1..Len(ns[q].children) : ns[q].children[i] = n}

\* the names on the way from the root to node n, following parents; a node
\* of the arena has a lower index than the nodes created below it
RECURSIVE SegmentsTo(_, _)
SegmentsTo(ns, n) ==
    IF n = 1 \/ ParentsOf(ns, n) = {} THEN <<>>
    ELSE SegmentsTo(ns, CHOOSE q \in ParentsOf(ns, n) : TRUE) \o <<ns[n].name>>

\* sibling names are pairwise distinct, the root alone has the empty name,
\* and each node has one parent, above it, and is the node its path resolves to
TreeShape(ns) ==
    /\ \A n \in 1..Len(ns) :
           \A i, j \in 1..Len(ns[n].children) :
               i # j => ns[ns[n].children[i]].name # ns[ns[n].children[j]].name
    /\ \A n \in 1..Len(ns) : (ns[n].name = <<>>) <=> (n = 1)
    /\ ParentsOf(ns, 1) = {}
    /\ \A n \in 2..Len(ns) :
           /\ Cardinality(ParentsOf(ns, n)) = 1
           /\ \A q \in ParentsOf(ns, n) :
                  /\ q < n
                  /\ Cardinality({i \in 1..Len(ns[q].children) : ns[q].children[i] = n}) = 1
    /\ \A n \in 1..Len(ns) : Walk(ns, 1, SegmentsTo(ns, n)) = n

\* C23: after any sequence of get_path calls from the tree of the root alone,
\* the names of the children of each node are pairwise distinct, the root is
\* the only node with the empty name, every node is reached from the root by
\* exactly one path, and every node that existed before a call still exists
\* after it, with its name, under its parent, at its place among its siblings.
C23_TreeStaysATree ==
    [][/\ TreeShape(nodes')
       /\ Len(nodes') >= Len(nodes)
       /\ \A n \in 1..Len(nodes) :
             /\ nodes'[n].name = nodes[n].name
             /\ ParentsOf(nodes', n) = ParentsOf(nodes, n)
             /\ Len(nodes'[n].children) >= Len(nodes[n].children)
             /\ SubSeq(nodes'[n].children, 1, Len(nodes[n].children)) = nodes[n].children
             /\ SegmentsTo(nodes', n) = SegmentsTo(nodes, n)]_vars

\* the root has two children and one of them has a child of its own, which
\* carries the name of the other
C23_Witness ==
    /\ Len(nodes) = 4
    /\ Len(nodes[1].children) = 2
    /\ \E c \in 2..4 :
           /\ ParentsOf(nodes, c) # {1}
           /\ \E i \in 1..2 : nodes[nodes[1].children[i]].name = nodes[c].name

Only(ns, n, iface) ==
    [k \in 1..Len(ns) |->
        [ns[k] EXCEPT !.interfaces =
            IF k # n THEN <<>>
            ELSE IF iface = None THEN @
            ELSE SelectSeq(@, LAMBDA i : i.name = iface)]]

\* every interface that is not an interface of node n under the key iface is
\* in the registry after the step as it was before
OthersUnchanged(n, iface) ==
    /\ Len(paths') >= Len(paths)
    /\ \A k \in 1..Len(paths) :
           /\ Len(paths'[k].interfaces) >= Len(paths[k].interfaces)
           /\ \A j \in 1..Len(paths[k].interfaces) :
                  (k # n \/ (iface # None /\ paths[k].interfaces[j].name # iface)) =>
                      paths'[k].interfaces[j] = paths[k].interfaces[j]

\* the interface a method-call addresses: the first argument of a call of the
\* Properties interface, the interface of the header otherwise
TargetInterface(m) ==
    IF m.interface = PropertiesName /\ m.body # <<>> THEN m.body[1] ELSE m.interface

C26_MissingPathIsKeyErrorAndNoNode ==
    [][\A m \in Messages :
          (/\ m.type = "method_call"
           /\ NodeOf(paths, m.path) = 0
           /\ HandleMsg(m))
          => /\ paths' = paths
             /\ Replies(m)
             /\ Reply.type = "error"
             /\ Reply.error_name = bus_name \o ".exceptions.KeyError"]_vars

====
